---- MODULE Spec2Model ----
(***************************************************************************)
(* Model of the arc command-line client (src/main.rs, src/api.rs): the     *)
(* login command, the session probe and re-authentication of the port      *)
(* commands, and the concurrent per-port writes of `port set`.             *)
(*                                                                         *)
(* One behaviour is a sequence of invocations of the program.  The server  *)
(* is a black box: every request is answered by any of the response        *)
(* classes in Resp.  The variables net, stdout, exit, probe, ports, tasks, *)
(* completion, saves and persisted0 describe the current invocation and    *)
(* are reset when the process ends.                                        *)
(***************************************************************************)
EXTENDS Integers, Sequences, FiniteSets, TLC

\* ---- bounds -------------------------------------------------------------
NumPorts == 2      \* ports of the device, in the order of the list response
MaxIds == 2        \* longest identifier list given on the command line
MaxLogins == 2     \* tokens the server issues in one behaviour

\* ---- values -------------------------------------------------------------
IdStr == <<"1", "2", "3", "4", "5", "6">>
AbsentId == "9"
DevicePorts == [i \in 1..NumPorts |-> IdStr[i]]
DeviceIds == {DevicePorts[i] : i \in 1..NumPorts}
\* identifiers a caller may name: the device's ports, one the device does
\* not have, and the sentinel
ArgIds == DevicePorts \o <<AbsentId, "all">>
IncreasingIndices(n) ==
  {s \in [1..n -> 1..Len(ArgIds)] : \A i \in 1..(n - 1) : s[i] < s[i + 1]}
\* identifier lists of the command line: up to MaxIds distinct identifiers in
\* the order of ArgIds, one list with a repeated identifier and one in
\* descending order
PortIdLists ==
  UNION {{[i \in 1..n |-> ArgIds[s[i]]] : s \in IncreasingIndices(n)} : n \in 1..MaxIds}
    \cup {<<"1", "1">>, <<"2", "1">>}
\* GetArgs.port_ids may be empty, SetArgs.port_ids is required
GetIdLists == PortIdLists \cup {<<>>}

BaseUrls == {"https://sw.local", "sw.local"}
NoArgs == [base_url |-> "", user_name |-> "", password |-> ""]
LoginArgsSet == [base_url : BaseUrls, user_name : {"admin"}, password : {"x"}]

\* a payload string: whether it is JSON, and the fields it names
Payloads == { [json |-> TRUE, fields |-> {"is_poe_enabled"}],
              [json |-> TRUE, fields |-> {"is_poe_enabled", "port_id"}],
              [json |-> FALSE, fields |-> {}] }
NoData == [json |-> FALSE, fields |-> {}]

\* answers of the server: 2xx, status 400, another non-2xx status, and a
\* failure without a status (connection failure, malformed body)
Resp == {"ok", "s400", "s500", "nostatus"}
\* results of an api call: Resp, or the request URL could not be built
Outcome == Resp \cup {"parse"}
\* answers to the PUT of a write task: 2xx or a failure; Session::set_port
\* passes every reqwest error on with ?, so one failing answer stands for all
PutResp == {"ok", "s400"}

VARIABLES pc, cmd, login_args, port_ids, data, persisted, persisted_data,
          session, tokenCtr, net, probe, ports, tasks, completion, stdout,
          exit, saves, persisted0, stderr

vars == <<pc, cmd, login_args, port_ids, data, persisted, persisted_data,
          session, tokenCtr, net, probe, ports, tasks, completion, stdout,
          exit, saves, persisted0, stderr>>

\* ---- helpers ------------------------------------------------------------
Contains(s, x) == \E i \in DOMAIN s : s[i] = x

\* reqwest::Url::parse: a base URL without a scheme does not parse
UrlParses(url) == url = "https://sw.local"

LoginRequestFrom(value) ==
  [user_name |-> value.user_name, password |-> value.password]

\* LoginRequest as serialized: userName and password
LoginBody(credentials) == {"userName", "password"}

\* one request on the wire: the session cookie it carries, the answer, for a
\* successful login the cookie the server issued, and the fields of its body
Req(op, port, cookie, resp, issued, body) ==
  [op |-> op, port |-> port, cookie |-> cookie, resp |-> resp,
   issued |-> issued, body |-> body]

\* Session::new: parse the URL, POST the credentials, bind the new cookie
SessionNew(url, credentials, r) ==
  IF ~UrlParses(url)
  THEN [res |-> "parse", reqs |-> <<>>, cookie |-> 0]
  ELSE IF r = "ok"
       THEN [res |-> "ok", cookie |-> tokenCtr + 1,
             reqs |-> <<Req("login", "-", 0, "ok", tokenCtr + 1, LoginBody(credentials))>>]
       ELSE [res |-> r, cookie |-> 0,
             reqs |-> <<Req("login", "-", 0, r, 0, LoginBody(credentials))>>]

\* Session::from_cookie: no request; fails only if the URL does not parse
FromCookie(url, session_cookie) ==
  IF UrlParses(url) THEN [res |-> "ok", cookie |-> session_cookie]
  ELSE [res |-> "parse", cookie |-> 0]

\* Session::get_ports
GetPorts(r) ==
  IF r = "parse" THEN [res |-> r, reqs |-> <<>>, val |-> <<>>]
  ELSE [res |-> r, reqs |-> <<Req("list", "-", session, r, 0, {})>>,
        val |-> IF r = "ok" THEN DevicePorts ELSE <<>>]

\* Session::get_port
GetPort(port_id, r) ==
  IF r = "parse" THEN [res |-> r, reqs |-> <<>>, val |-> <<>>]
  ELSE [res |-> r, reqs |-> <<Req("get", port_id, session, r, 0, {})>>,
        val |-> IF r = "ok" THEN <<port_id>> ELSE <<>>]

\* the answers the device can give to a GET of one port
GetPortOutcomes(port_id) ==
  IF port_id \in DeviceIds THEN Outcome ELSE Outcome \ {"ok"}

\* PersistentData::save_to_disk: the record is overwritten, or the write fails
SaveToDiskNoPassword(args, cookie, ok) ==
  IF ok THEN <<[login_args |-> [args EXCEPT !.password = ""], cookie |-> cookie]>>
  ELSE persisted

SaveToDiskKeepFirst(args, cookie, ok) ==
  IF ok /\ persisted = <<>> THEN <<[login_args |-> args, cookie |-> cookie]>>
  ELSE persisted

SaveToDisk(args, cookie, ok) ==
  IF ok THEN <<[login_args |-> args, cookie |-> cookie]>> ELSE persisted

\* ---- start of an invocation -----------------------------------------------
Reset ==
  /\ net' = <<>>
  /\ probe' = "none"
  /\ ports' = <<>>
  /\ tasks' = <<>>
  /\ completion' = <<>>
  /\ stdout' = <<>>
  /\ exit' = "none"
  /\ saves' = 0
  /\ session' = 0
  /\ persisted_data' = <<>>
  /\ persisted0' = persisted
  /\ stderr' = <<>>

StartLogin(args) ==
  /\ pc = "idle"
  /\ tokenCtr < MaxLogins
  /\ pc' = "login"
  /\ cmd' = "login"
  /\ login_args' = args
  /\ port_ids' = <<>>
  /\ data' = NoData
  /\ Reset
  /\ UNCHANGED <<persisted, tokenCtr>>

StartPort(c, ids, d) ==
  /\ pc = "idle"
  /\ tokenCtr < MaxLogins
  /\ pc' = "load"
  /\ cmd' = c
  /\ login_args' = NoArgs
  /\ port_ids' = ids
  /\ data' = d
  /\ Reset
  /\ UNCHANGED <<persisted, tokenCtr>>

\* main, Command::Completion
Completion ==
  /\ pc = "idle"
  /\ cmd' = "completion"
  /\ login_args' = NoArgs
  /\ port_ids' = <<>>
  /\ data' = NoData
  /\ net' = <<>>
  /\ probe' = "none"
  /\ ports' = <<>>
  /\ tasks' = <<>>
  /\ completion' = <<>>
  /\ stdout' = <<"completion script">>
  /\ exit' = "ok"
  /\ saves' = 0
  /\ session' = 0
  /\ persisted_data' = <<>>
  /\ persisted0' = persisted
  /\ stderr' = <<>>
  /\ pc' = "done"
  /\ UNCHANGED <<persisted, tokenCtr>>

\* main returns: the process ends and only the persisted record remains
Exit ==
  /\ pc = "done"
  /\ pc' = "idle"
  /\ cmd' = "none"
  /\ login_args' = NoArgs
  /\ port_ids' = <<>>
  /\ data' = NoData
  /\ Reset
  /\ UNCHANGED <<persisted, tokenCtr>>

\* ---- login ----------------------------------------------------------------
\* LoginArgs::handle, called from main
LoginHandle(r, saveOk) ==
  /\ pc = "login"
  /\ r = "ok" => tokenCtr < MaxLogins
  /\ LET new == SessionNew(login_args.base_url, LoginRequestFrom(login_args), r) IN
       /\ net' = net \o new.reqs
       /\ IF new.res = "ok"
          THEN /\ tokenCtr' = new.cookie
               /\ persisted' = SaveToDisk(login_args, new.cookie, saveOk)
               /\ saves' = IF saveOk THEN saves + 1 ELSE saves
               /\ session' = new.cookie
               /\ exit' = IF saveOk THEN "ok" ELSE "err_save"
          ELSE /\ exit' = "err_auth"
               /\ UNCHANGED <<tokenCtr, persisted, saves, session>>
  /\ pc' = "done"
  /\ UNCHANGED <<cmd, login_args, port_ids, data, persisted_data, probe, ports,
                 tasks, completion, stdout, persisted0, stderr>>

\* ---- port commands: main -------------------------------------------------
\* main: load_from_disk and Session::from_cookie
PortLoad(loadOk) ==
  /\ pc = "load"
  /\ IF persisted = <<>> \/ ~loadOk
     THEN /\ exit' = "err_load"
          /\ pc' = "done"
          /\ UNCHANGED <<persisted_data, session>>
     ELSE LET restored == FromCookie(persisted[1].login_args.base_url,
                                     persisted[1].cookie) IN
          /\ persisted_data' = persisted
          /\ IF restored.res = "ok"
             THEN /\ session' = restored.cookie
                  /\ pc' = "probe"
                  /\ exit' = exit
             ELSE /\ session' = session
                  /\ pc' = "done"
                  /\ exit' = "err_parse"
  /\ UNCHANGED <<cmd, login_args, port_ids, data, persisted, tokenCtr, net,
                 probe, ports, tasks, completion, stdout, saves, persisted0, stderr>>

\* main: the branches on the result of the probe session.get_port("1")
ProbeBranchAlwaysReauth(r) ==
  IF r \in {"s400", "s500", "nostatus"}
  THEN IF r # "nostatus"
       THEN IF r = "s400" THEN "reauth" ELSE "bail"
       ELSE "bail"
  ELSE "reauth"

ProbeBranchNoReauth(r) ==
  IF r \in {"s400", "s500", "nostatus"} THEN "bail" ELSE "session"

ProbeBranch(r) ==
  IF r \in {"s400", "s500", "nostatus"}
  THEN IF r # "nostatus"
       THEN IF r = "s400" THEN "reauth" ELSE "bail"
       ELSE "bail"
  ELSE "session"

Probe(r) ==
  /\ pc = "probe"
  /\ LET got == GetPort("1", r)
         branch == ProbeBranch(r) IN
       /\ net' = net \o got.reqs
       /\ probe' = r
       /\ pc' = CASE branch = "reauth" -> "reauth"
                  [] branch = "bail" -> "done"
                  [] OTHER -> cmd
       /\ exit' = IF branch = "bail" THEN "unexpected" ELSE exit
  /\ UNCHANGED <<cmd, login_args, port_ids, data, persisted, persisted_data,
                 session, tokenCtr, ports, tasks, completion, stdout, saves,
                 persisted0, stderr>>

\* main: the session the port command runs with after a re-authentication
ReauthSessionStale(old, new) == old

ReauthSession(old, new) == new

\* main: where control goes after a successful re-authentication
AfterReauthReprobe == "probe"

AfterReauth == cmd

\* main: where control goes when the re-authentication fails
AfterReauthErrorContinue == cmd

AfterReauthError == "done"

\* main: Session::new with the persisted login parameters, then save_to_disk
Reauth(r, saveOk) ==
  /\ pc = "reauth"
  /\ r = "ok" => tokenCtr < MaxLogins
  /\ LET args == persisted_data[1].login_args
         new == SessionNew(args.base_url, LoginRequestFrom(args), r) IN
       /\ net' = net \o new.reqs
       /\ IF new.res = "ok"
          THEN /\ tokenCtr' = new.cookie
               /\ persisted' = SaveToDisk(args, new.cookie, saveOk)
               /\ saves' = IF saveOk THEN saves + 1 ELSE saves
               /\ IF saveOk
                  THEN /\ session' = ReauthSession(session, new.cookie)
                       /\ pc' = AfterReauth
                       /\ exit' = exit
                  ELSE /\ session' = session
                       /\ pc' = "done"
                       /\ exit' = "err_save"
          ELSE /\ exit' = IF AfterReauthError = "done" THEN "err_auth" ELSE exit
               /\ pc' = AfterReauthError
               /\ UNCHANGED <<tokenCtr, persisted, saves, session>>
  /\ UNCHANGED <<cmd, login_args, port_ids, data, persisted_data, probe, ports,
                 tasks, completion, stdout, persisted0, stderr>>

\* ---- port get ---------------------------------------------------------------
\* GetArgs::handle and SetArgs::handle: port_ids is exactly ["all"]
IsAll(ids) == Len(ids) = 1 /\ ids[1] = "all"

\* .filter(|port| self.port_ids.contains(&port.port_id))
FilterKeepAll(list, ids) == list

Filter(list, ids) == SelectSeq(list, LAMBDA port : Contains(ids, port))

\* GetArgs::handle: the request that selects the ports, and the ports found
GetSelect(ids, r) ==
  IF IsAll(ids) THEN GetPorts(r)
  ELSE IF Len(ids) = 1 THEN GetPort(ids[1], r)
  ELSE LET got == GetPorts(r) IN [got EXCEPT !.val = Filter(got.val, ids)]

\* the answers the device can give to the selecting request of `port get`
GetSelectOutcomes(ids) ==
  IF ~IsAll(ids) /\ Len(ids) = 1 THEN GetPortOutcomes(ids[1]) ELSE Outcome

\* the api::Error a handler returns: the request it belongs to and its class
ApiError(port, r) == [port |-> port, res |-> r]

\* GetArgs::handle
GetHandle(r) ==
  /\ pc = "get"
  /\ r \in GetSelectOutcomes(port_ids)
  /\ LET got == GetSelect(port_ids, r) IN
       /\ net' = net \o got.reqs
       /\ IF got.res = "ok"
          THEN /\ ports' = got.val
               /\ stdout' = got.val
               /\ exit' = "ok"
               /\ stderr' = stderr
          ELSE /\ exit' = "err_api"
               /\ stderr' = <<ApiError("-", got.res)>>
               /\ UNCHANGED <<ports, stdout>>
  /\ pc' = "done"
  /\ UNCHANGED <<cmd, login_args, port_ids, data, persisted, persisted_data,
                 session, tokenCtr, probe, tasks, completion, saves, persisted0>>

\* ---- port set ---------------------------------------------------------------
\* serde_json::from_str(&self.data)
FromStrUnchecked(d) == TRUE

FromStr(d) == d.json

\* SetArgs::handle: the request that selects the ports, and the ports found
SetSelectLikeGet(ids, r) ==
  IF IsAll(ids) THEN GetPorts(r)
  ELSE IF Len(ids) = 1 THEN GetPort(ids[1], r)
  ELSE LET got == GetPorts(r) IN [got EXCEPT !.val = Filter(got.val, ids)]

SetSelect(ids, r) ==
  IF IsAll(ids) THEN GetPorts(r)
  ELSE LET got == GetPorts(r) IN [got EXCEPT !.val = Filter(got.val, ids)]

\* the spawn loop: one task per selected port, each owning its port
SpawnTasksSamePort(selected) ==
  [i \in 1..Len(selected) |->
     [port |-> selected[1], st |-> "spawned", res |-> "none", req |-> 0,
      val |-> "-"]]

SpawnTasks(selected) ==
  [i \in 1..Len(selected) |->
     [port |-> selected[i], st |-> "spawned", res |-> "none", req |-> 0,
      val |-> "-"]]

\* SetArgs::handle up to the end of the spawn loop: list, select, and for each
\* selected port parse the payload and spawn its write task
SetSpawn(r) ==
  /\ pc = "set"
  /\ LET got == SetSelect(port_ids, r)
         selected == got.val IN
       /\ net' = net \o got.reqs
       /\ IF got.res # "ok"
          THEN /\ exit' = "err_api"
               /\ stderr' = <<ApiError("-", got.res)>>
               /\ pc' = "done"
               /\ UNCHANGED <<ports, tasks>>
          ELSE /\ ports' = selected
               /\ IF selected # <<>> /\ ~FromStr(data)
                  THEN /\ exit' = "err_json"
                       /\ stderr' = <<ApiError("-", "json")>>
                       /\ pc' = "done"
                       /\ tasks' = tasks
                  ELSE /\ tasks' = SpawnTasks(selected)
                       /\ pc' = "join"
                       /\ exit' = exit
                       /\ stderr' = stderr
  /\ UNCHANGED <<cmd, login_args, port_ids, data, persisted, persisted_data,
                 session, tokenCtr, probe, completion, stdout, saves, persisted0>>

\* a spawned task runs as soon as it is scheduled
TaskRunnableInOrder(ts, i) ==
  /\ ts[i].st = "spawned"
  /\ \A j \in 1..(i - 1) : ts[j].st \in {"returned", "panicked"}

TaskRunnable(ts, i) == ts[i].st = "spawned"

\* a write task runs Session::set_port: build the URL and send the PUT
TaskSend(i, urlOk) ==
  /\ pc = "join"
  /\ i \in DOMAIN tasks
  /\ TaskRunnable(tasks, i)
  /\ IF urlOk
     THEN /\ net' = Append(net, Req("put", tasks[i].port, session, "pending", 0,
                                    data.fields))
          /\ tasks' = [tasks EXCEPT ![i].st = "inflight", ![i].req = Len(net) + 1]
          /\ completion' = completion
     ELSE /\ tasks' = [tasks EXCEPT ![i].st = "returned", ![i].res = "parse"]
          /\ completion' = Append(completion, i)
          /\ net' = net
  /\ UNCHANGED <<pc, cmd, login_args, port_ids, data, persisted, persisted_data,
                 session, tokenCtr, probe, ports, stdout, exit, saves, persisted0, stderr>>

\* PortPoeWrite: the fields of a port descriptor that may be written
Writable == {"is_poe_enabled"}

\* Session::set_port: the answer to the PUT arrives and the task returns; a
\* 2xx answer is the descriptor of the port the PUT was addressed to
TaskReturn(i, r) ==
  /\ pc = "join"
  /\ i \in DOMAIN tasks
  /\ tasks[i].st = "inflight"
  /\ net' = [net EXCEPT ![tasks[i].req].resp = r]
  /\ tasks' = [tasks EXCEPT ![i].st = "returned", ![i].res = r,
                            ![i].val = IF r = "ok" THEN net[tasks[i].req].port
                                       ELSE "-"]
  /\ completion' = Append(completion, i)
  /\ UNCHANGED <<pc, cmd, login_args, port_ids, data, persisted, persisted_data,
                 session, tokenCtr, probe, ports, stdout, exit, saves, persisted0, stderr>>

\* a write task ends without a value while its request is in flight: its
\* JoinHandle yields Err(JoinError)
TaskPanic(i) ==
  /\ pc = "join"
  /\ i \in DOMAIN tasks
  /\ tasks[i].st = "inflight"
  /\ tasks' = [tasks EXCEPT ![i].st = "panicked"]
  /\ completion' = Append(completion, i)
  /\ UNCHANGED <<pc, cmd, login_args, port_ids, data, persisted, persisted_data,
                 session, tokenCtr, net, probe, ports, stdout, exit, saves,
                 persisted0, stderr>>

\* futures::future::join_all(tasks).await resumes when every task has ended
JoinReadyAny(ts) ==
  \/ \A i \in DOMAIN ts : ts[i].st \in {"returned", "panicked"}
  \/ \E i \in DOMAIN ts : ts[i].st = "returned" /\ ts[i].res # "ok"

JoinReady(ts) == \A i \in DOMAIN ts : ts[i].st \in {"returned", "panicked"}

JoinItem(t) ==
  IF t.st = "panicked"
  THEN [join |-> "Err", res |-> "none", port |-> t.port, val |-> "-"]
  ELSE [join |-> "Ok", res |-> t.res, port |-> t.port, val |-> t.val]

\* join_all: the outputs of the tasks, in the order the tasks were pushed
JoinAllUnordered(ts, order) == [k \in 1..Len(order) |-> JoinItem(ts[order[k]])]

JoinAll(ts, order) == [i \in 1..Len(ts) |-> JoinItem(ts[i])]

\* .flat_map(|task| task.map_err(..)): iterating a Result yields its Ok value
\* and nothing for an Err
FlatMap(rs) == SelectSeq(rs, LAMBDA task : task.join = "Ok")

\* .collect::<Result<Vec<PortPoe>, api::Error>>(): the first Err, or all values
CollectSkipErr(rs) ==
  LET oks == SelectSeq(rs, LAMBDA x : x.res = "ok") IN
  [ok |-> TRUE, err |-> ApiError("-", "none"),
   val |-> [i \in 1..Len(oks) |-> oks[i].val]]

Collect(rs) ==
  IF \E i \in DOMAIN rs : rs[i].res # "ok"
  THEN LET first == CHOOSE i \in DOMAIN rs :
                      /\ rs[i].res # "ok"
                      /\ \A j \in 1..(i - 1) : rs[j].res = "ok" IN
       [ok |-> FALSE, err |-> ApiError(rs[first].port, rs[first].res), val |-> <<>>]
  ELSE [ok |-> TRUE, err |-> ApiError("-", "none"),
        val |-> [i \in 1..Len(rs) |-> rs[i].val]]

\* SetArgs::handle from join_all on: aggregate and print
SetJoin ==
  /\ pc = "join"
  /\ JoinReady(tasks)
  /\ LET results == Collect(FlatMap(JoinAll(tasks, completion))) IN
       IF results.ok
       THEN /\ stdout' = results.val
            /\ exit' = "ok"
            /\ stderr' = stderr
       ELSE /\ stdout' = stdout
            /\ exit' = "err_api"
            /\ stderr' = <<results.err>>
  /\ pc' = "done"
  /\ UNCHANGED <<cmd, login_args, port_ids, data, persisted, persisted_data,
                 session, tokenCtr, net, probe, ports, tasks, completion, saves,
                 persisted0>>

Init ==
  /\ pc = "idle"
  /\ cmd = "none"
  /\ login_args = NoArgs
  /\ port_ids = <<>>
  /\ data = NoData
  /\ persisted = <<>>
  /\ persisted_data = <<>>
  /\ session = 0
  /\ tokenCtr = 0
  /\ net = <<>>
  /\ probe = "none"
  /\ ports = <<>>
  /\ tasks = <<>>
  /\ completion = <<>>
  /\ stdout = <<>>
  /\ exit = "none"
  /\ saves = 0
  /\ persisted0 = <<>>
  /\ stderr = <<>>

Next ==
  \/ \E args \in LoginArgsSet : StartLogin(args)
  \/ \E ids \in GetIdLists : StartPort("get", ids, NoData)
  \/ \E ids \in PortIdLists, d \in Payloads : StartPort("set", ids, d)
  \/ Completion
  \/ \E r \in Resp, saveOk \in BOOLEAN : LoginHandle(r, saveOk)
  \/ \E loadOk \in BOOLEAN : PortLoad(loadOk)
  \/ \E r \in Outcome : Probe(r)
  \/ \E r \in Resp, saveOk \in BOOLEAN : Reauth(r, saveOk)
  \/ \E r \in Outcome : GetHandle(r)
  \/ \E r \in Outcome : SetSpawn(r)
  \/ \E i \in 1..NumPorts, urlOk \in BOOLEAN : TaskSend(i, urlOk)
  \/ \E i \in 1..NumPorts, r \in PutResp : TaskReturn(i, r)
  \/ \E i \in 1..NumPorts : TaskPanic(i)
  \/ SetJoin
  \/ Exit

Spec == Init /\ [][Next]_vars

\* every request gets an answer or an error, every spawned task runs and
\* ends, and the runtime resumes main when what it awaits is ready
Fairness ==
  /\ WF_vars(\E loadOk \in BOOLEAN : PortLoad(loadOk))
  /\ WF_vars(\E r \in Outcome : Probe(r))
  /\ WF_vars(\E r \in Resp, saveOk \in BOOLEAN : Reauth(r, saveOk))
  /\ WF_vars(\E r \in Outcome : GetHandle(r))
  /\ WF_vars(\E r \in Outcome : SetSpawn(r))
  /\ \A i \in 1..NumPorts :
       /\ WF_vars(\E urlOk \in BOOLEAN : TaskSend(i, urlOk))
       /\ WF_vars((\E r \in PutResp : TaskReturn(i, r)) \/ TaskPanic(i))
  /\ WF_vars(SetJoin)

FairSpec == Spec /\ Fairness
\* ---- properties -------------------------------------------------------------
IsPortCmd == cmd \in {"get", "set"}
Logins == {i \in DOMAIN net : net[i].op = "login"}
PortOps == {"list", "get", "put"}
ListOk == \E i \in DOMAIN net : net[i].op = "list" /\ net[i].resp = "ok"
AllEnded == \A k \in DOMAIN tasks : tasks[k].st \in {"returned", "panicked"}
Puts(p) == {i \in DOMAIN net : net[i].op = "put" /\ net[i].port = p}

\* C1: in a run of a port command at most one login request is sent, whatever
\* the server answers.
C1_AtMostOneLogin == IsPortCmd => Cardinality(Logins) <= 1

\* a finished port command that re-authenticated and then got a 400 answer
C1_Witness ==
  /\ IsPortCmd
  /\ pc = "done"
  /\ \E i \in Logins : \E j \in DOMAIN net :
       j > i /\ net[j].op \in PortOps /\ net[j].resp = "s400"

\* C2: after a probe answered 400 and a successful re-authentication, every
\* later request of the invocation comes after the login request and carries
\* the cookie that login issued, which is the persisted one and differs from
\* the cookie the invocation loaded.
C2_NewTokenAfterReauth ==
  (IsPortCmd /\ probe = "s400") =>
    \A i \in DOMAIN net :
      (i > 1 /\ net[i].op \in PortOps) =>
        \E j \in 1..(i - 1) :
          /\ net[j].op = "login"
          /\ net[j].resp = "ok"
          /\ net[i].cookie = net[j].issued
          /\ net[i].cookie # persisted_data[1].cookie
          /\ persisted[1].cookie = net[i].cookie

\* a set command that re-authenticated and then wrote a port
C2_Witness ==
  /\ cmd = "set"
  /\ probe = "s400"
  /\ pc = "done"
  /\ exit = "ok"
  /\ \E i \in DOMAIN net : net[i].op = "put" /\ net[i].resp = "ok"

\* C3: when the probe succeeds, no login request is sent, the persisted
\* record is not written, every request carries the loaded cookie, and the
\* requests after the probe are those of the port operation: at most one list
\* or get for `get`; one list and then at most one PUT per selected port for
\* `set`.
C3_ProbeOkFrame ==
  (IsPortCmd /\ probe = "ok") =>
    /\ Logins = {}
    /\ saves = 0
    /\ persisted = persisted0
    /\ session = persisted_data[1].cookie
    /\ \A i \in DOMAIN net : net[i].cookie = persisted_data[1].cookie
    /\ net[1].op = "get" /\ net[1].port = "1"
    /\ cmd = "get" =>
         /\ Len(net) <= 2
         /\ Len(net) = 2 => net[2].op \in {"list", "get"}
    /\ cmd = "set" =>
         /\ \A i \in DOMAIN net : i = 2 => net[i].op = "list"
         /\ \A i \in DOMAIN net : i > 2 =>
              /\ net[i].op = "put"
              /\ Contains(ports, net[i].port)
              /\ Cardinality(Puts(net[i].port)) = 1

\* a set command with a good probe that wrote two ports
C3_Witness ==
  /\ cmd = "set"
  /\ probe = "ok"
  /\ pc = "done"
  /\ exit = "ok"
  /\ Len(net) >= 4

C5_Any400Reauth ==
  (IsPortCmd /\ pc = "done"
     /\ \E i \in DOMAIN net : net[i].op \in PortOps /\ net[i].resp = "s400") =>
    /\ Cardinality(Logins) = 1
    /\ exit = "err_api" => \E j \in Logins : net[j].resp # "ok"

\* C5 amended: a 400 answer to the probe triggers exactly one login request,
\* sent right after the probe, and is not itself surfaced; there is a login
\* request only then; a 400 answer to a later list, get or PUT request is
\* followed by no login request and the command fails with the API error.
C5_Probe400Reauth ==
  (IsPortCmd /\ pc = "done") =>
    /\ probe = "s400" =>
         /\ Cardinality(Logins) = 1
         /\ net[2].op = "login"
         /\ exit # "unexpected"
         /\ exit = "err_auth" <=> net[2].resp # "ok"
    /\ probe # "s400" => Logins = {}
    /\ \A i \in DOMAIN net :
         (net[i].op \in PortOps /\ net[i].resp = "s400"
            /\ ~(i = 1 /\ probe = "s400")) =>
           /\ exit = "err_api"
           /\ \A j \in Logins : j < i

\* a port command whose probe got 400, re-authenticated, and whose list
\* request then got 400 again
C5_Witness ==
  /\ IsPortCmd
  /\ pc = "done"
  /\ probe = "s400"
  /\ Len(net) = 3
  /\ net[2].op = "login" /\ net[2].resp = "ok"
  /\ net[3].op = "list" /\ net[3].resp = "s400"
  /\ exit = "err_api"

\* C6: a set command over N selected ports shows N result lines or none.
C6_AllOrNothing ==
  (cmd = "set" /\ pc = "done") => Len(stdout) \in {0, Len(ports)}

\* C7: if a write task ends abnormally, the set command fails with the
\* coordination failure 'failed to join task' and shows no result.
C7_JoinErrorReported ==
  (cmd = "set" /\ pc = "done"
     /\ \E k \in DOMAIN tasks : tasks[k].st = "panicked") =>
    /\ exit = "err_join"
    /\ stdout = <<>>

\* C8: if at least one write returns an API error, the set command fails
\* with the API error and shows no result line for any port.
C8_ApiErrorFailsAll ==
  (cmd = "set" /\ pc = "done"
     /\ \E k \in DOMAIN tasks : tasks[k].st = "returned" /\ tasks[k].res # "ok") =>
    /\ exit = "err_api"
    /\ stdout = <<>>

\* a failed set command in which one write succeeded and another got an
\* error status
C8_Witness ==
  /\ cmd = "set"
  /\ pc = "done"
  /\ exit = "err_api"
  /\ \E k \in DOMAIN tasks : tasks[k].res = "ok"
  /\ \E k \in DOMAIN tasks : tasks[k].res = "s400"

\* C9 as stated: a PUT is issued for every selected port, and nothing is
\* shown or reported before every spawned task has ended.
C9_PutForEverySelected ==
  cmd = "set" =>
    /\ (pc = "done" /\ ListOk) => \A k \in DOMAIN ports : Puts(ports[k]) # {}
    /\ (stdout # <<>> \/ exit # "none") => AllEnded

\* C9 amended: when the payload is JSON, one task is spawned per selected
\* port, in order; at the end of the command every task has ended and has
\* issued exactly one PUT for its port unless its URL could not be built,
\* whatever its siblings returned; nothing is shown or reported before every
\* spawned task has ended.
C9_JoinWaitsForAll ==
  cmd = "set" =>
    /\ (pc \in {"join", "done"} /\ ListOk /\ FromStr(data)) =>
         /\ Len(tasks) = Len(ports)
         /\ \A k \in DOMAIN tasks : tasks[k].port = ports[k]
    /\ (pc = "done" /\ ListOk /\ FromStr(data)) =>
         \A k \in DOMAIN tasks :
           /\ tasks[k].st \in {"returned", "panicked"}
           /\ tasks[k].res # "parse" => Cardinality(Puts(tasks[k].port)) = 1
    /\ (stdout # <<>> \/ exit # "none") => AllEnded

\* a finished set command whose first task to end failed, while a sibling
\* still sent its PUT and got its answer
C9_Witness ==
  /\ cmd = "set"
  /\ pc = "done"
  /\ Len(tasks) >= 2
  /\ tasks[completion[1]].res \in PutResp \ {"ok"}
  /\ \E k \in DOMAIN tasks :
       /\ k # completion[1]
       /\ tasks[k].res = "ok"
       /\ Puts(tasks[k].port) # {}

\* C10 as stated: when every write succeeds, the results are in the order in
\* which the writes completed.
C10_CompletionOrder ==
  (cmd = "set" /\ pc = "done" /\ tasks # <<>>
     /\ \A k \in DOMAIN tasks : tasks[k].res = "ok") =>
    stdout = [k \in 1..Len(completion) |-> tasks[completion[k]].port]

\* C10 amended: when every write succeeds, the results are in the order in
\* which the writes were submitted, the order of the selected ports.
C10_SubmissionOrder ==
  (cmd = "set" /\ pc = "done" /\ tasks # <<>>
     /\ \A k \in DOMAIN tasks : tasks[k].res = "ok") =>
    stdout = ports

\* a successful set command whose second write completed before its first
C10_Witness ==
  /\ cmd = "set"
  /\ pc = "done"
  /\ exit = "ok"
  /\ Len(tasks) >= 2
  /\ \A k \in DOMAIN tasks : tasks[k].res = "ok"
  /\ completion[1] = 2
  /\ stdout = ports
Lists == {i \in DOMAIN net : net[i].op = "list"}
AllPuts == {i \in DOMAIN net : net[i].op = "put"}
\* the handler of the port command has run, or is waiting for its tasks
HandlerRan ==
  pc = "join" \/ (pc = "done" /\ exit \in {"ok", "err_api", "err_json"})
\* the identifier list is handled by listing and filtering
FilterPath == ~IsAll(port_ids) /\ (cmd = "set" \/ Len(port_ids) # 1)
\* the listed ports whose port_id is among the requested identifiers
Requested == SelectSeq(DevicePorts, LAMBDA p : Contains(port_ids, p))

\* C11: when the N writes of a set command over N selected ports all
\* succeed, N results are shown, the selected ports are distinct, and for
\* each selected port exactly one result is the answer to the one PUT sent
\* for that port.
C11_OneResultPerPort ==
  (cmd = "set" /\ pc = "done" /\ tasks # <<>>
     /\ \A k \in DOMAIN tasks : tasks[k].res = "ok") =>
    /\ Len(tasks) = Len(ports)
    /\ Len(stdout) = Len(ports)
    /\ \A k, m \in DOMAIN ports : ports[k] = ports[m] => k = m
    /\ \A m \in DOMAIN stdout : Contains(ports, stdout[m])
    /\ \A k \in DOMAIN ports :
         /\ Cardinality({m \in DOMAIN stdout : stdout[m] = ports[k]}) = 1
         /\ Cardinality({i \in Puts(ports[k]) : net[i].resp = "ok"}) = 1

\* a successful set command over two ports
C11_Witness ==
  /\ cmd = "set"
  /\ pc = "done"
  /\ exit = "ok"
  /\ Len(ports) >= 2
  /\ Len(stdout) = Len(ports)

\* C12 as stated: "all" selects every listed port; on the filter path exactly
\* one list request is made (a request whose URL could not be built aside),
\* the targets are the listed ports that were requested and unknown
\* identifiers raise no error; in a set command the ports that receive a PUT
\* are exactly the targets, each once.
C12_TargetsGetPut ==
  (IsPortCmd /\ HandlerRan) =>
    /\ (IsAll(port_ids) /\ ListOk) => ports = DevicePorts
    /\ (FilterPath /\ stderr # <<ApiError("-", "parse")>>) => Cardinality(Lists) = 1
    /\ (FilterPath /\ ListOk) => ports = Requested
    /\ (FilterPath /\ ListOk /\ cmd = "get") => exit = "ok"
    /\ (cmd = "set" /\ pc = "done" /\ ListOk) =>
         /\ {net[i].port : i \in AllPuts} = {ports[k] : k \in DOMAIN ports}
         /\ \A k \in DOMAIN ports : Cardinality(Puts(ports[k])) = 1

\* C12 amended: "all" selects every listed port; on the filter path one list
\* request is made, or none when its URL could not be built, the targets are
\* the listed ports that were requested and unknown identifiers raise no
\* error; in a set command every PUT goes to a target and no target gets
\* two, and at the end of a set command with a JSON payload every target has
\* got its PUT unless the URL of its request could not be built.
C12_TargetsAndPuts ==
  (IsPortCmd /\ HandlerRan) =>
    /\ (IsAll(port_ids) /\ ListOk) => ports = DevicePorts
    /\ FilterPath => Cardinality(Lists) <= 1
    /\ (FilterPath /\ Lists = {}) =>
         (pc = "done" /\ exit = "err_api" /\ stderr = <<ApiError("-", "parse")>>)
    /\ (FilterPath /\ ListOk) => ports = Requested
    /\ (FilterPath /\ ListOk /\ cmd = "get") => exit = "ok"
    /\ cmd = "set" =>
         /\ \A i \in AllPuts : Contains(ports, net[i].port)
         /\ \A k \in DOMAIN ports : Cardinality(Puts(ports[k])) <= 1
    /\ (cmd = "set" /\ pc = "done" /\ ListOk /\ data.json) =>
         \A k \in DOMAIN ports :
           tasks[k].res # "parse" => Cardinality(Puts(ports[k])) = 1

\* a set command for one port of the device and one unknown identifier that
\* wrote the one port
C12_Witness ==
  /\ cmd = "set"
  /\ pc = "done"
  /\ exit = "ok"
  /\ port_ids = <<"2", AbsentId>>
  /\ ports = <<"2">>
  /\ {net[i].port : i \in AllPuts} = {"2"}
\* the selection step of a set command has succeeded
SetSelected ==
  /\ cmd = "set"
  /\ pc = "join" \/ (pc = "done" /\ (exit \in {"ok", "err_json"} \/ tasks # <<>>))
\* a single explicit identifier that the device does not have
SingleAbsent ==
  Len(port_ids) = 1 /\ port_ids[1] \notin (DeviceIds \cup {"all"})

\* C13 as stated: for the same identifier list and device, Get and Set
\* determine the same targets and the same outcome of the selection step:
\* whenever the selection of Set yields some targets, the selection of Get
\* can yield the same targets, and the other way round.
C13_SharedSelection ==
  /\ SetSelected =>
       \E r \in GetSelectOutcomes(port_ids) :
         GetSelect(port_ids, r).res = "ok" /\ GetSelect(port_ids, r).val = ports
  /\ (cmd = "get" /\ pc = "done" /\ exit = "ok") =>
       (SetSelect(port_ids, "ok").res = "ok" /\ SetSelect(port_ids, "ok").val = ports)

\* C13 amended: Get and Set determine the same targets except for a single
\* explicit identifier the device does not have: there Get, which looks the
\* port up with get_port, fails with the API error whatever the device
\* answers, and Set, which lists and filters, succeeds with no target.
C13_SelectionButSingleAbsent ==
  /\ (SetSelected /\ ~SingleAbsent) =>
       \E r \in GetSelectOutcomes(port_ids) :
         GetSelect(port_ids, r).res = "ok" /\ GetSelect(port_ids, r).val = ports
  /\ (SetSelected /\ SingleAbsent) =>
       /\ ports = <<>>
       /\ pc = "done" => (exit = "ok" /\ stdout = <<>>)
       /\ \A r \in GetSelectOutcomes(port_ids) : GetSelect(port_ids, r).res # "ok"
  /\ (cmd = "get" /\ pc = "done" /\ HandlerRan /\ SingleAbsent) => exit = "err_api"
  /\ (cmd = "get" /\ pc = "done" /\ exit = "ok") =>
       (SetSelect(port_ids, "ok").res = "ok" /\ SetSelect(port_ids, "ok").val = ports)

\* a set command for a single identifier the device does not have, which
\* succeeded without a target
C13_Witness ==
  /\ cmd = "set"
  /\ pc = "done"
  /\ port_ids = <<AbsentId>>
  /\ ListOk
  /\ ports = <<>>
  /\ exit = "ok"

\* C14 as stated: the persisted record never contains the plaintext password
\* of a login, and the password is only in the body of login requests.
C14_PasswordNotPersisted ==
  /\ persisted = <<>>
       \/ persisted[1].login_args.password \notin {a.password : a \in LoginArgsSet}
  /\ \A i \in DOMAIN net : "password" \in net[i].body => net[i].op = "login"

\* C14 amended: the persisted record holds the login parameters with the
\* plaintext password of the login command; on the wire the password is only
\* in the body of login requests.
C14_PasswordPersisted ==
  /\ persisted # <<>> =>
       persisted[1].login_args.password \in {a.password : a \in LoginArgsSet}
  /\ cmd = "login" /\ saves = 1 => persisted[1].login_args.password = login_args.password
  /\ \A i \in DOMAIN net : "password" \in net[i].body => net[i].op = "login"

\* a port command that re-authenticated with the persisted password
C14_Witness ==
  /\ IsPortCmd
  /\ probe = "s400"
  /\ \E j \in Logins : net[j].resp = "ok" /\ "password" \in net[j].body
  /\ persisted[1].login_args.password = "x"

\* C15: there is at most one persisted record; an invocation that saved no
\* authentication leaves it as it was; an invocation that saved one saved
\* exactly one, and the record then holds the cookie that login returned,
\* with the login parameters of the login command or, after a
\* re-authentication, the base URL and login parameters it had before.
C15_RecordHoldsLastSavedToken ==
  /\ Len(persisted) <= 1
  /\ saves = 0 => persisted = persisted0
  /\ saves # 0 =>
       /\ saves = 1
       /\ \E j \in Logins : net[j].resp = "ok" /\ persisted[1].cookie = net[j].issued
       /\ persisted[1].cookie = tokenCtr
       /\ cmd = "login" => persisted[1].login_args = login_args
       /\ IsPortCmd => persisted[1].login_args = persisted0[1].login_args

\* a port command whose re-authentication replaced the cookie of the record
C15_Witness ==
  /\ IsPortCmd
  /\ saves = 1
  /\ persisted0 # <<>>
  /\ persisted[1].cookie # persisted0[1].cookie
  /\ persisted[1].login_args = persisted0[1].login_args

\* C16: the body of every PUT holds only writable fields.
C16_OnlyWritableFields ==
  \A i \in AllPuts : net[i].body \subseteq Writable

\* an authentication of this invocation has failed
AuthFailed ==
  \/ \E j \in Logins : net[j].resp # "ok"
  \/ cmd = "login" /\ pc = "done" /\ ~UrlParses(login_args.base_url)

\* C17: after a failed authentication the invocation has ended with the
\* authentication error, the persisted record is as it was before the
\* invocation, and no request follows the login request.
C17_AuthFailureEnds ==
  AuthFailed =>
    /\ pc = "done"
    /\ exit = "err_auth"
    /\ saves = 0
    /\ persisted = persisted0
    /\ \A j \in Logins : j = Len(net)

\* a port command whose re-authentication was rejected
C17_Witness ==
  /\ IsPortCmd
  /\ probe = "s400"
  /\ pc = "done"
  /\ exit = "err_auth"
  /\ Len(net) = 2
  /\ net[2].op = "login" /\ net[2].resp = "s400"
\* C18: when every write of a set command succeeds, the results are shown
\* in the order in which the tasks were submitted, which is the order of the
\* selected ports; when writes return API errors, the error reported is that
\* of the failing task that was submitted first.
C18_SubmissionOrderFirstError ==
  (cmd = "set" /\ pc = "done" /\ tasks # <<>>) =>
    /\ (\A k \in DOMAIN tasks : tasks[k].res = "ok") =>
         /\ \A k \in DOMAIN tasks : tasks[k].port = ports[k]
         /\ stdout = [k \in 1..Len(tasks) |-> tasks[k].val]
    /\ \A f \in DOMAIN tasks :
         (/\ tasks[f].st = "returned" /\ tasks[f].res # "ok"
          /\ \A k \in 1..(f - 1) : ~(tasks[k].st = "returned" /\ tasks[k].res # "ok")) =>
           stderr = <<ApiError(tasks[f].port, tasks[f].res)>>

\* a set command whose two writes failed, the second one first in time, and
\* which reports the error of the first
C18_Witness ==
  /\ cmd = "set"
  /\ pc = "done"
  /\ Len(tasks) >= 2
  /\ tasks[1].res = "s400"
  /\ tasks[2].res = "s400"
  /\ tasks[1].port # tasks[2].port
  /\ completion[1] = 2
  /\ stderr = <<ApiError(tasks[1].port, "s400")>>

\* C19: a set command whose payload is not JSON spawns no task and sends no
\* PUT; once its list request has succeeded it fails with the parse error
\* if a port is selected, and succeeds with no output if none is.
C19_InvalidJsonNoPut ==
  (cmd = "set" /\ ~data.json) =>
    /\ AllPuts = {}
    /\ tasks = <<>>
    /\ (pc = "done" /\ ListOk /\ ports # <<>>) => (exit = "err_json" /\ stdout = <<>>)
    /\ (pc = "done" /\ ListOk /\ ports = <<>>) => (exit = "ok" /\ stdout = <<>>)

\* a set command with a payload that is not JSON and a selected port, which
\* failed with the parse error
C19_Witness ==
  /\ cmd = "set"
  /\ ~data.json
  /\ pc = "done"
  /\ ports # <<>>
  /\ exit = "err_json"
  /\ Len(net) = 2

\* a write task that can take its next step can take it whatever the state
\* of its siblings
NoSiblingWait ==
  pc = "join" =>
    \A i \in DOMAIN tasks :
      /\ tasks[i].st = "spawned" => ENABLED TaskSend(i, TRUE)
      /\ tasks[i].st = "inflight" => ENABLED TaskReturn(i, "ok")

\* C20: under Fairness every invocation of a port command ends, and no
\* write task waits for a sibling.
C20_Terminates ==
  /\ (IsPortCmd /\ pc # "done") ~> (pc = "done")
  /\ []NoSiblingWait

\* a set command over two ports that has ended after its second task ended
\* before its first
C20_Witness ==
  /\ cmd = "set"
  /\ pc = "done"
  /\ Len(tasks) >= 2
  /\ completion = <<2, 1>>
  /\ exit \in {"ok", "err_api"}
====
